---- MODULE Spec2Model ----
(***************************************************************************)
(* Model of src/main.py: the salary statistics functions (parse_salary,    *)
(* calculate_quantile, calculate_stats, histogram) and the pipeline of     *)
(* main (get_vacancies_from_hh, calculate_stats, draw_plots,               *)
(* save_results).                                                          *)
(*                                                                         *)
(* Numbers.  A salary (Python int or float) is written as the integer      *)
(* x * Den: every salary is a multiple of 1/Den, so Den * 5000 is the      *)
(* salary 5000 and Den * 5000 + 1 the non-integer salary 5000 + 1/Den.     *)
(* A quantile is a numerator over 4 * Den; its float arithmetic is exact   *)
(* for such salaries and q a multiple of 1/4.  The floats of the mean, the *)
(* variance and the bin edges are not exact: they are IEEE-754 doubles,    *)
(* computed here operation by operation with round-to-nearest-even, as     *)
(* [neg, mag] with mag a fixed-point magnitude in limbs of 15 bits.  A     *)
(* power (**) is the one operation that need not round to the nearest, so  *)
(* calculate_variance and calculate_stats are the sets of the results the  *)
(* program can give.                                                       *)
(* Python's None is the empty tuple and a present value v is <<v>>.        *)
(***************************************************************************)
EXTENDS Integers, Sequences, FiniteSets

\* Salaries are multiples of 1/Den = 2^-FractionBits.
FractionBits == 1
Den == 2^FractionBits
\* Longest salary sequence handed to a statistics function.
MaxLen == 3
\* Largest bin count handed to histogram.
MaxBins == 3
\* Most items on one page of the listings API.
MaxItems == 2
\* Limbs after and before the binary point of a float's magnitude.
FracLimbs == 6
IntLimbs == 3

\* get_vacancies_from_hh's local constant (in salary units).
MIN_SALARY_THRESHOLD == 5000
\* get_vacancies_from_hh's default for max_pages, which main relies on.
max_pages == 3
\* draw_plots: the cap of min(15, len(salaries) // 2).
MAX_PLOT_BINS == 15

None == <<>>
Some(v) == <<v>>

\* int(x) for x = num / den, den > 0: truncation toward zero.
Trunc(num, den) ==
    IF num >= 0 THEN num \div den ELSE -((-num) \div den)

\* Python truthiness of an optional number: None and 0 are falsy.
Truthy(x) == x # None /\ x[1] # 0

RECURSIVE SumSeq(_)
SumSeq(s) == IF s = <<>> THEN 0 ELSE s[1] + SumSeq(Tail(s))

RECURSIVE Insert(_, _)
Insert(x, s) ==
    IF s = <<>> THEN <<x>>
    ELSE IF x < s[1] THEN <<x>> \o s
    ELSE <<s[1]>> \o Insert(x, Tail(s))

\* sorted(salaries): ascending, stable.
RECURSIVE sorted(_)
sorted(s) ==
    IF s = <<>> THEN <<>> ELSE Insert(s[Len(s)], sorted(SubSeq(s, 1, Len(s) - 1)))

\* Python's min and max of a non-empty sequence.
PyMin(s) == CHOOSE x \in {s[i] : i \in DOMAIN s} : \A j \in DOMAIN s : x <= s[j]
PyMax(s) == CHOOSE x \in {s[i] : i \in DOMAIN s} : \A j \in DOMAIN s : x >= s[j]

\* Whether the list subscript s[i] (0-based, negative from the end) exists.
InRange(s, i) == -Len(s) <= i /\ i < Len(s)
\* s[i] for a subscript in range.
PyIndex(s, i) == IF i >= 0 THEN s[i + 1] ELSE s[Len(s) + i + 1]

(***************************************************************************)
(* Magnitudes.  A magnitude is a sequence of limbs, least significant      *)
(* first, each in 0 .. Base - 1; the magnitude of a float has Width limbs, *)
(* FracLimbs of them after the binary point.                               *)
(***************************************************************************)
Base == 2^15
Width == FracLimbs + IntLimbs
\* Bits of a double's significand.
MantissaBits == 53

Zeros(n) == [i \in 1..n |-> 0]

RECURSIVE AddLimbs(_, _, _, _)
AddLimbs(a, b, i, carry) ==
    IF i > Len(a) THEN <<>>
    ELSE <<(a[i] + b[i] + carry) % Base>>
         \o AddLimbs(a, b, i + 1, (a[i] + b[i] + carry) \div Base)
\* a + b.
BAdd(a, b) == AddLimbs(a, b, 1, 0)

RECURSIVE SubLimbs(_, _, _, _)
SubLimbs(a, b, i, borrow) ==
    IF i > Len(a) THEN <<>>
    ELSE LET t == a[i] - b[i] - borrow
         IN <<IF t < 0 THEN t + Base ELSE t>>
            \o SubLimbs(a, b, i + 1, IF t < 0 THEN 1 ELSE 0)
\* a - b for a >= b.
BSub(a, b) == SubLimbs(a, b, 1, 0)

RECURSIVE MulLimbs(_, _, _, _)
MulLimbs(a, k, i, carry) ==
    IF i > Len(a) THEN <<>>
    ELSE <<(a[i] * k + carry) % Base>>
         \o MulLimbs(a, k, i + 1, (a[i] * k + carry) \div Base)
\* a * k for 0 <= k <= Base.
BMulSmall(a, k) == MulLimbs(a, k, 1, 0)

RECURSIVE DivLimbs(_, _, _, _)
DivLimbs(a, k, i, rem) ==
    IF i = 0 THEN [q |-> <<>>, r |-> rem]
    ELSE LET cur == rem * Base + a[i]
             rest == DivLimbs(a, k, i - 1, cur % k)
         IN [q |-> rest.q \o <<cur \div k>>, r |-> rest.r]
\* Quotient and remainder of a by k, 0 < k <= Base.
BDivSmall(a, k) == DivLimbs(a, k, Len(a), 0)

RECURSIVE MulRows(_, _, _)
MulRows(a, b, j) ==
    IF j > Len(b) THEN Zeros(Len(a) + Len(b))
    ELSE IF b[j] = 0 THEN MulRows(a, b, j + 1)
    ELSE BAdd(MulRows(a, b, j + 1),
              Zeros(j - 1) \o BMulSmall(a \o <<0>>, b[j]) \o Zeros(Len(b) - j))
\* a * b, in Len(a) + Len(b) limbs.
BMul(a, b) == MulRows(a, b, 1)

BLess(a, b) ==
    \E i \in DOMAIN a :
        a[i] < b[i] /\ \A j \in DOMAIN a : j > i => a[j] = b[j]

BIsZero(a) == \A i \in DOMAIN a : a[i] = 0

\* Number of bits of a: 0 for zero, else 1 + floor(log2(a)).
BitLength(a) ==
    IF BIsZero(a) THEN 0
    ELSE LET top == CHOOSE i \in DOMAIN a :
                        a[i] # 0 /\ \A j \in DOMAIN a : j > i => a[j] = 0
         IN 15 * (top - 1) + (CHOOSE b \in 1..15 : 2^(b - 1) <= a[top] /\ a[top] < 2^b)

\* 2^e in n limbs.
Pow2(e, n) == [i \in 1..n |-> IF i = e \div 15 + 1 THEN 2^(e % 15) ELSE 0]

\* a mod 2^s.
LowBits(a, s) ==
    [i \in DOMAIN a |-> IF i <= s \div 15 THEN a[i]
                        ELSE IF i = s \div 15 + 1 THEN a[i] % 2^(s % 15)
                        ELSE 0]

\* The nearest magnitude of at most MantissaBits bits, ties to the even one;
\* inexact says that a is the floor of a value that is not a itself.
RoundNearestEven(a, inexact) ==
    LET s == BitLength(a) - MantissaBits
    IN IF s <= 0 THEN a
       ELSE LET low == LowBits(a, s)
                kept == [i \in DOMAIN a |-> a[i] - low[i]]
                half == Pow2(s - 1, Len(a))
                odd == (a[s \div 15 + 1] \div 2^(s % 15)) % 2 = 1
                tie == \A i \in DOMAIN a : low[i] = half[i]
                up == BLess(half, low) \/ (tie /\ (inexact \/ odd))
            IN IF up THEN BAdd(kept, Pow2(s, Len(a))) ELSE kept

\* The magnitudes of at most MantissaBits bits next to a: the one below it, and
\* the one above it (a itself when it has no more bits).
RoundBelow(a) ==
    LET s == BitLength(a) - MantissaBits
    IN IF s <= 0 THEN a ELSE [i \in DOMAIN a |-> a[i] - LowBits(a, s)[i]]
RoundAbove(a) ==
    LET s == BitLength(a) - MantissaBits
    IN IF s <= 0 \/ BIsZero(LowBits(a, s)) THEN a
       ELSE BAdd(RoundBelow(a), Pow2(s, Len(a)))

(***************************************************************************)
(* Floats.  A float is [neg, mag]: the value is mag / Base^FracLimbs,      *)
(* negated if neg.  The operations are the ones Python's float has on      *)
(* doubles; +, -, * and / round their exact result to the nearest double.  *)
(* The magnitudes at hand are far from the ends of the double's range:     *)
(* below 2^(15 * IntLimbs) and, unless zero, with their last significant   *)
(* bit at or above 2^-(15 * FracLimbs).                                    *)
(***************************************************************************)
MkFloat(neg, mag) == [neg |-> neg /\ ~BIsZero(mag), mag |-> mag]

\* The float of the number num / Den (an int or a float of the program).
FloatOf(num) ==
    LET a == IF num < 0 THEN -num ELSE num
        whole == [i \in 1..Width |->
                    IF i = FracLimbs + 1 THEN a % Base
                    ELSE IF i = FracLimbs + 2 THEN (a \div Base) % Base
                    ELSE IF i = FracLimbs + 3 THEN a \div (Base * Base)
                    ELSE 0]
    IN MkFloat(num < 0, BDivSmall(whole, Den).q)

FNeg(x) == MkFloat(~x.neg, x.mag)

\* x + y.
FAdd(x, y) ==
    IF x.neg = y.neg THEN MkFloat(x.neg, RoundNearestEven(BAdd(x.mag, y.mag), FALSE))
    ELSE IF BLess(x.mag, y.mag)
         THEN MkFloat(y.neg, RoundNearestEven(BSub(y.mag, x.mag), FALSE))
         ELSE MkFloat(x.neg, RoundNearestEven(BSub(x.mag, y.mag), FALSE))

\* x - y.
FSub(x, y) == FAdd(x, FNeg(y))

\* How a power comes out of the C library's pow, which Python's ** calls on
\* floats.  pow is accurate to the last bit but is not bound to round to the
\* nearest: it gives the exact power when that is a double, else one of the
\* two doubles around it, and which of the two is up to the library and the
\* machine it runs on.
PowRoundings == {"below", "above"}

\* x ** 2, for one way it comes out of pow.
FSquare(x, pow) ==
    LET exact == BMul(x.mag, x.mag)
        rounded == IF pow = "below" THEN RoundBelow(exact) ELSE RoundAbove(exact)
    IN MkFloat(FALSE, SubSeq(rounded, FracLimbs + 1, FracLimbs + Width))

\* i * x for an int i, 0 <= i <= Base.
FMulInt(i, x) == MkFloat(x.neg, RoundNearestEven(BMulSmall(x.mag, i), FALSE))

\* x / n for an int n, 0 < n <= Base.
FDivInt(x, n) ==
    LET d == BDivSmall(x.mag, n)
    IN MkFloat(x.neg, RoundNearestEven(d.q, d.r # 0))

\* x < y and x <= y.
FLess(x, y) ==
    IF x.neg # y.neg THEN x.neg
    ELSE IF x.neg THEN BLess(y.mag, x.mag) ELSE BLess(x.mag, y.mag)
FLessEq(x, y) == ~FLess(y, x)

\* int(x), in salary units: truncation toward zero, from the three integer
\* limbs of x.
FTrunc(x) ==
    LET whole == x.mag[FracLimbs + 1] + Base * x.mag[FracLimbs + 2]
                 + Base * Base * x.mag[FracLimbs + 3]
    IN IF x.neg THEN -whole ELSE whole

(***************************************************************************)
(* parse_salary (lines 52-61).  salary_data is None or <<record>> with     *)
(* optional currency, from and to (an absent key and a null value both     *)
(* read as None through dict.get; the empty dict is falsy and has no       *)
(* currency, so it is the record with every field None).  Returns None or  *)
(* <<salary>>.                                                             *)
(***************************************************************************)
parse_salary(salary_data) ==
    IF salary_data = None \/ salary_data[1].currency # Some("RUR") THEN None
    ELSE LET salary_from == salary_data[1].from
             salary_to == salary_data[1].to
         IN IF Truthy(salary_from) /\ Truthy(salary_to)
            THEN Some(((salary_from[1] + salary_to[1]) \div (2 * Den)) * Den)
            ELSE IF Truthy(salary_from) THEN salary_from ELSE salary_to

(***************************************************************************)
(* calculate_quantile (lines 72-80).  q is q4 / 4.  The result is          *)
(* [raises |-> "IndexError"] or [raises |-> "", value |-> v], v a          *)
(* numerator over 4 * Den.                                                 *)
(***************************************************************************)
calculate_quantile(salaries, q4) ==
    LET sorted_salaries == sorted(salaries)
        index4 == (Len(sorted_salaries) - 1) * q4
        lower == Trunc(index4, 4)
        delta4 == index4 - 4 * lower
    IN IF lower + 1 < Len(sorted_salaries)
       THEN IF InRange(sorted_salaries, lower) /\ InRange(sorted_salaries, lower + 1)
            THEN [raises |-> "",
                  value |-> PyIndex(sorted_salaries, lower) * (4 - delta4)
                            + PyIndex(sorted_salaries, lower + 1) * delta4]
            ELSE [raises |-> "IndexError"]
       ELSE IF InRange(sorted_salaries, lower)
            THEN [raises |-> "", value |-> 4 * PyIndex(sorted_salaries, lower)]
            ELSE [raises |-> "IndexError"]

\* calculate_mean (lines 64-65): sum(salaries) / len(salaries).  The sum of
\* the salaries is exact; the division rounds.
calculate_mean(salaries) ==
    FDivInt(FloatOf(SumSeq(salaries)), Len(salaries))

\* Line 69, sum(... for x in salaries) over the first i salaries: the floats
\* the sum can be.  The builtin sum adds the floats (x - mean) ** 2 one by
\* one, left to right, each addition rounding (CPython before 3.12, which
\* compensates the additions); each ** comes out of pow on its own.
RECURSIVE sum_squares(_, _, _)
sum_squares(salaries, mean, i) ==
    IF i = 0 THEN {FloatOf(0)}
    ELSE {FAdd(total, FSquare(FSub(FloatOf(salaries[i]), mean), pow)) :
              total \in sum_squares(salaries, mean, i - 1), pow \in PowRoundings}

\* calculate_variance (lines 68-69): the floats it can return.
calculate_variance(salaries, mean) ==
    {FDivInt(total, Len(salaries)) :
         total \in sum_squares(salaries, mean, Len(salaries))}

\* floor(sqrt(n)), given its bits above 2^b in k.
RECURSIVE SqrtBits(_, _, _)
SqrtBits(n, k, b) ==
    IF b < 0 THEN k
    ELSE IF k + 2^b <= n \div (k + 2^b) THEN SqrtBits(n, k + 2^b, b - 1)
    ELSE SqrtBits(n, k, b - 1)
\* floor(sqrt(n)) for an int n, 0 <= n < 2^45.
IntSqrt(n) == SqrtBits(n, 0, 22)

\* int(x ** 0.5) for a float x >= 0 (lines 96 and 108), for one way the root
\* comes out of pow.  With k = floor(sqrt(x)) and b the double before k + 1,
\* the root of x comes out as k + 1 when it is above b and pow gives the
\* double above it; int() of anything else is k.
int_sqrt(x, pow) ==
    LET k == IntSqrt(FTrunc(x))
        next == FloatOf((k + 1) * Den).mag
        e == BitLength(next) - 15 * FracLimbs - 1
        gap == 15 * FracLimbs + e
               - (IF k + 1 = 2^e THEN MantissaBits ELSE MantissaBits - 1)
        before_next == BSub(next, Pow2(gap, Width))
        wide == Zeros(FracLimbs) \o x.mag \o Zeros(IntLimbs)
    IN IF pow = "above" /\ BLess(BMul(before_next, before_next), wide)
       THEN k + 1 ELSE k

(***************************************************************************)
(* calculate_stats (lines 83-117): the results it can return, one for each *)
(* way the squares (line 69) and the root (line 96) come out of pow.  A    *)
(* result is None for an empty sequence, otherwise <<summary>>.  min, max  *)
(* and range are the input numbers, kept as they are; mean .. iqr are      *)
(* stored through int(), each on its own.  Every field but count is        *)
(* written as its value * Den.                                             *)
(***************************************************************************)
calculate_stats(salaries) ==
    IF salaries = <<>> THEN {None}
    ELSE LET sorted_salaries == sorted(salaries)
             n == Len(sorted_salaries)
             min_val == sorted_salaries[1]
             max_val == sorted_salaries[n]
             range_val == max_val - min_val
             mean_val == calculate_mean(salaries)
             q1 == calculate_quantile(sorted_salaries, 1).value
             median == calculate_quantile(sorted_salaries, 2).value
             q3 == calculate_quantile(sorted_salaries, 3).value
             iqr == q3 - q1
         IN {Some([count |-> n,
                   min |-> min_val,
                   max |-> max_val,
                   range |-> range_val,
                   mean |-> FTrunc(mean_val) * Den,
                   variance |-> FTrunc(variance_val) * Den,
                   stdev |-> int_sqrt(variance_val, root) * Den,
                   q1 |-> Trunc(q1, 4 * Den) * Den,
                   median |-> Trunc(median, 4 * Den) * Den,
                   q3 |-> Trunc(q3, 4 * Den) * Den,
                   iqr |-> Trunc(iqr, 4 * Den) * Den]) :
                variance_val \in calculate_variance(salaries, mean_val),
                root \in PowRoundings}

(***************************************************************************)
(* histogram (lines 120-136).  Raises ValueError on an empty sequence      *)
(* (min of an empty list) and ZeroDivisionError for n_bins = 0; otherwise  *)
(* returns bins (n_bins + 1 floats), freq_counts and prob_counts (the      *)
(* floats count / total, written as their numerators over total).          *)
(***************************************************************************)
\* Line 123: bin_width = (max_salary - min_salary) / n_bins.
bin_width(min_salary, max_salary, n_bins) ==
    FDivInt(FloatOf(max_salary - min_salary), n_bins)

\* Line 124: bins[i] = min_salary + i * bin_width, i = 0 .. n_bins.
hist_bins(min_salary, max_salary, n_bins) ==
    [j \in 1..(n_bins + 1) |->
        FAdd(FloatOf(min_salary),
             FMulInt(j - 1, bin_width(min_salary, max_salary, n_bins)))]

\* Line 129: bins[i] <= salary < bins[i + 1] (i 0-based).
in_bin(bins, i, salary) ==
    FLessEq(bins[i + 1], FloatOf(salary)) /\ FLess(FloatOf(salary), bins[i + 2])

\* Lines 128-131: the bins whose count the inner loop raises for one salary:
\* the first bin that holds it, then break.
bins_hit(bins, salary, n_bins) ==
    LET holding == {i \in 0..(n_bins - 1) : in_bin(bins, i, salary)}
    IN IF holding = {} THEN {}
       ELSE {CHOOSE i \in holding : \A j \in holding : i <= j}

histogram(salaries, n_bins) ==
    IF salaries = <<>> THEN [raises |-> "ValueError"]
    ELSE IF n_bins = 0 THEN [raises |-> "ZeroDivisionError"]
    ELSE LET min_salary == IF PyMin(salaries) < 0 THEN 0 ELSE PyMin(salaries)
             max_salary == PyMax(salaries)
             bins == hist_bins(min_salary, max_salary, n_bins)
             hits == [k \in DOMAIN salaries |-> bins_hit(bins, salaries[k], n_bins)]
             freq_counts == [j \in 1..n_bins |->
                 Cardinality({k \in DOMAIN salaries : (j - 1) \in hits[k]})]
             total == Len(salaries)
         IN [raises |-> "",
             n_bins |-> n_bins,
             bins |-> bins,
             freq_counts |-> freq_counts,
             prob_counts |-> freq_counts,
             total |-> total]

(***************************************************************************)
(* Inputs.                                                                 *)
(***************************************************************************)
\* Salary values handed to the statistics functions: negative, zero,
\* non-integer (1 is 1/Den) and integer ones.
Values == {-2 * Den, -Den, 0, 1, Den, 3 * Den}
SalarySeqs == UNION {[1..n -> Values] : n \in 0..MaxLen}
\* The probabilities handed to calculate_quantile, in quarters:
\* -0.5, 0, 0.25, 0.5, 0.75, 1, 1.5.
Quarters == {-2, 0, 1, 2, 3, 4, 6}

\* The raw salary records handed to parse_salary.
Bounds == {None, Some(0), Some(1), Some(3 * Den), Some(4 * Den)}
SalaryRecords ==
    {None} \cup {Some(r) : r \in [currency : {None, Some("RUR"), Some("USD")},
                                  from : Bounds, to : Bounds]}

\* The listing items the API serves in the pipeline: a salary at the
\* threshold, one below it, a range above it, and a foreign-currency one.
Rur(from, to) == Some([currency |-> Some("RUR"), from |-> from, to |-> to])
Items ==
    { [name |-> "a", salary |-> Rur(Some(MIN_SALARY_THRESHOLD * Den), None)],
      [name |-> "b", salary |-> Rur(None, Some((MIN_SALARY_THRESHOLD - 1) * Den))],
      [name |-> "c", salary |-> Rur(Some(MIN_SALARY_THRESHOLD * Den),
                                    Some((MIN_SALARY_THRESHOLD + 7) * Den))],
      [name |-> "d", salary |-> Some([currency |-> Some("USD"),
                                      from |-> Some(2 * MIN_SALARY_THRESHOLD * Den),
                                      to |-> None])] }
\* The non-empty 'items' lists of a page.
ItemPages == UNION {[1..n -> Items] : n \in 1..MaxItems}

\* Inputs past the bounds above, on which the floats show: a variance that
\* comes out just below the integer 206, and a last bin edge that comes out
\* above the maximum.
RoundingSalaries == {[i \in 1..9 |-> Den * <<29, 32, 27, 3, 3, 37, 0, 9, 34>>[i]]}
RoundingHistograms ==
    {[salaries |-> [i \in 1..3 |-> Den * <<0, 0, 29>>[i]], n_bins |-> 7]}

Calls ==
    {[op |-> "main"]}
    \cup {[op |-> "parse_salary", salary_data |-> r] : r \in SalaryRecords}
    \cup {[op |-> "calculate_quantile", salaries |-> s, q4 |-> q] :
             s \in SalarySeqs, q \in Quarters}
    \cup {[op |-> "calculate_stats", salaries |-> s] : s \in SalarySeqs}
    \cup {[op |-> "calculate_stats", salaries |-> s] : s \in RoundingSalaries}
    \cup {[op |-> "histogram", salaries |-> s, n_bins |-> n] :
             s \in SalarySeqs, n \in 0..MaxBins}
    \cup {[op |-> "histogram", salaries |-> h.salaries, n_bins |-> h.n_bins] :
             h \in RoundingHistograms}

(***************************************************************************)
(* State.                                                                  *)
(***************************************************************************)
VARIABLES
    call,        \* the function under analysis and its arguments
    pc,          \* control position
    result,      \* what a direct call of a statistics function produced
    page,        \* get_vacancies_from_hh: the loop variable
    vacancies,   \* get_vacancies_from_hh: the list being collected
    responses,   \* get_vacancies_from_hh: the API's answers so far, one per
                 \* request, in order (kept until main has the list)
    stats,       \* main: calculate_stats' result
    hist         \* main: what draw_plots' call of histogram produced

vars == <<call, pc, result, page, vacancies, responses, stats, hist>>

Init ==
    /\ call \in Calls
    /\ pc = IF call.op = "main" THEN "fetch" ELSE "start"
    /\ result = None
    /\ page = 0
    /\ vacancies = <<>>
    /\ responses = <<>>
    /\ stats = None
    /\ hist = None

pipeline == <<page, vacancies, responses, stats, hist>>

(***************************************************************************)
(* Direct calls of the statistics functions.                               *)
(***************************************************************************)
CallParseSalary ==
    /\ pc = "start" /\ call.op = "parse_salary"
    /\ result' = [raises |-> "", value |-> parse_salary(call.salary_data)]
    /\ pc' = "done"
    /\ UNCHANGED <<call, pipeline>>

CallCalculateQuantile ==
    /\ pc = "start" /\ call.op = "calculate_quantile"
    /\ result' = calculate_quantile(call.salaries, call.q4)
    /\ pc' = "done"
    /\ UNCHANGED <<call, pipeline>>

CallCalculateStats ==
    /\ pc = "start" /\ call.op = "calculate_stats"
    /\ \E summary \in calculate_stats(call.salaries) :
          result' = [raises |-> "", value |-> summary]
    /\ pc' = "done"
    /\ UNCHANGED <<call, pipeline>>

CallHistogram ==
    /\ pc = "start" /\ call.op = "histogram"
    /\ result' = histogram(call.salaries, call.n_bins)
    /\ pc' = "done"
    /\ UNCHANGED <<call, pipeline>>

(***************************************************************************)
(* get_vacancies_from_hh (lines 13-49), one action per outcome of the      *)
(* request of the current page.                                            *)
(***************************************************************************)
\* Line 36 with the comparison written >.
keeps_above(salary) == Truthy(salary) /\ salary[1] > MIN_SALARY_THRESHOLD * Den

\* Line 36: salary and salary >= MIN_SALARY_THRESHOLD.
keeps(salary) == Truthy(salary) /\ salary[1] >= MIN_SALARY_THRESHOLD * Den

\* Lines 34-43: the vacancies one page's items add, in item order.
RECURSIVE collect(_)
collect(items) ==
    IF items = <<>> THEN <<>>
    ELSE LET item == items[1]
             salary == parse_salary(item.salary)
         IN (IF keeps(salary)
             THEN <<[title |-> item.name, salary |-> salary[1]]>>
             ELSE <<>>) \o collect(Tail(items))

\* The for loop moves to the next page, or ends and the list is returned.
NextPage ==
    /\ page' = page + 1
    /\ pc' = IF page + 1 < max_pages THEN "fetch" ELSE "returned"

\* Lines 27-28, 45-47: the request raises RequestException; continue.
RequestFails ==
    /\ pc = "fetch" /\ page < max_pages
    /\ responses' = Append(responses, [page |-> page, kind |-> "failed", items |-> <<>>])
    /\ NextPage
    /\ UNCHANGED <<call, result, vacancies, stats, hist>>

\* Lines 30-32: the page has no items; break.
RequestEmptyPage ==
    /\ pc = "fetch" /\ page < max_pages
    /\ responses' = Append(responses, [page |-> page, kind |-> "ok", items |-> <<>>])
    /\ pc' = "returned"
    /\ UNCHANGED <<call, result, page, vacancies, stats, hist>>

\* Lines 30-43: the page has items.
RequestPageWithItems ==
    /\ pc = "fetch" /\ page < max_pages
    /\ \E items \in ItemPages :
          /\ responses' = Append(responses, [page |-> page, kind |-> "ok", items |-> items])
          /\ vacancies' = vacancies \o collect(items)
    /\ NextPage
    /\ UNCHANGED <<call, result, stats, hist>>

(***************************************************************************)
(* main (lines 252-280) after get_vacancies_from_hh has returned.  The     *)
(* console prompts before it (lines 240-250) only choose the query.        *)
(***************************************************************************)
salaries_of(vs) == [i \in DOMAIN vs |-> vs[i].salary]

\* Line 166.
plot_bins(salaries) ==
    IF Len(salaries) \div 2 < MAX_PLOT_BINS THEN Len(salaries) \div 2 ELSE MAX_PLOT_BINS

\* Line 252: main binds the list get_vacancies_from_hh returned; the call is
\* over and what it was answered is not kept.
MainReceivesVacancies ==
    /\ pc = "returned"
    /\ responses' = <<>>
    /\ pc' = "received"
    /\ UNCHANGED <<call, result, page, vacancies, stats, hist>>

\* Lines 254-256.
MainNoVacancies ==
    /\ pc = "received" /\ vacancies = <<>>
    /\ pc' = "not_found"
    /\ UNCHANGED <<call, result, pipeline>>

\* Lines 258-270: the statistics are computed and printed.
MainCalculateStats ==
    /\ pc = "received" /\ vacancies # <<>>
    /\ stats' \in calculate_stats(salaries_of(vacancies))
    /\ pc' = "printed"
    /\ UNCHANGED <<call, result, page, vacancies, responses, hist>>

\* Lines 273, 166-167, 279-280: draw_plots calls histogram; what it raises
\* is caught by main's except Exception, which ends the run.  The drawing
\* calls around it belong to the chart-rendering collaborator and do not
\* change the state.
MainDrawPlots ==
    /\ pc = "printed"
    /\ hist' = histogram(salaries_of(vacancies), plot_bins(salaries_of(vacancies)))
    /\ pc' = IF hist'.raises = "" THEN "plotted" ELSE "went_wrong"
    /\ UNCHANGED <<call, result, page, vacancies, responses, stats>>

\* Line 275.
MainSaveResults ==
    /\ pc = "plotted"
    /\ pc' = "saved"
    /\ UNCHANGED <<call, result, pipeline>>

Next ==
    \/ CallParseSalary
    \/ CallCalculateQuantile
    \/ CallCalculateStats
    \/ CallHistogram
    \/ RequestFails
    \/ RequestEmptyPage
    \/ RequestPageWithItems
    \/ MainReceivesVacancies
    \/ MainNoVacancies
    \/ MainCalculateStats
    \/ MainDrawPlots
    \/ MainSaveResults

Spec == Init /\ [][Next]_vars

(***************************************************************************)
(* Properties.                                                             *)
(***************************************************************************)
Returned(op) == pc = "done" /\ call.op = op /\ result.raises = ""
NonNegative(s) == \A i \in DOMAIN s : s[i] >= 0
\* Whole amounts, as the listings API serves them.
Whole(s) == \A i \in DOMAIN s : s[i] % Den = 0
\* The minimum after histogram's clamp, max(0, min(values)).
ClampedMin(s) == IF PyMin(s) < 0 THEN 0 ELSE PyMin(s)

\* C1: for every non-empty sequence of non-negative salary values the summary
\* calculate_stats returns has min <= q1 <= median <= q3 <= max, on the values
\* it stores.
C1_QuartilesOrdered ==
    (Returned("calculate_stats") /\ call.salaries # <<>> /\ NonNegative(call.salaries))
    => LET s == result.value[1]
       IN s.min <= s.q1 /\ s.q1 <= s.median /\ s.median <= s.q3 /\ s.q3 <= s.max

\* C2: the summary's fields agree with each other: iqr = q3 - q1 >= 0 and
\* range = max - min >= 0 (stated here for whole, non-negative salaries, which
\* every reading of the claim covers).
C2_SummaryConsistent ==
    (Returned("calculate_stats") /\ call.salaries # <<>>
        /\ NonNegative(call.salaries) /\ Whole(call.salaries))
    => LET s == result.value[1]
       IN /\ s.iqr = s.q3 - s.q1 /\ s.iqr >= 0
          /\ s.range = s.max - s.min /\ s.range >= 0

\* C3: calculate_stats on an empty sequence fails with an error; it never
\* returns normally.
C3_EmptyInputFails ==
    (pc = "done" /\ call.op = "calculate_stats" /\ call.salaries = <<>>)
    => result.raises # ""

\* The normalizer contract of C4: a bound is present when it is a number,
\* 0 included.
NormalizerContract(salary_data) ==
    IF salary_data = None \/ salary_data[1].currency # Some("RUR") THEN None
    ELSE LET from == salary_data[1].from
             to == salary_data[1].to
         IN IF from # None /\ to # None
            THEN Some(((from[1] + to[1]) \div (2 * Den)) * Den)
            ELSE IF from # None THEN from ELSE to

\* C4: parse_salary returns what the normalizer contract says on every record:
\* no value without the currency RUR, the (floored) midpoint when both bounds
\* are present, the one bound present, no value when neither is.
C4_ParseSalaryContract ==
    Returned("parse_salary") => result.value = NormalizerContract(call.salary_data)

\* What C5 says of a histogram result r for the values s: n_bins + 1 strictly
\* increasing edges, edges[i] = min_v + i * bin_width (in the floats of the
\* program), every value in at most one bin, each bin counting the values v
\* with edges[i] <= v < edges[i+1], and sum(frequencies) the number of values
\* in [edges[0], edges[n_bins]).
HistogramShape(s, n, r) ==
    LET min_v == FloatOf(ClampedMin(s))
        width == FDivInt(FloatOf(PyMax(s) - ClampedMin(s)), n)
        within(v, lo, hi) == FLessEq(lo, FloatOf(v)) /\ FLess(FloatOf(v), hi)
    IN /\ Len(r.bins) = n + 1 /\ Len(r.freq_counts) = n
       /\ \A j \in 1..n : FLess(r.bins[j], r.bins[j + 1])
       /\ \A j \in 1..(n + 1) : r.bins[j] = FAdd(min_v, FMulInt(j - 1, width))
       /\ \A k \in DOMAIN s :
              Cardinality({j \in 1..n : within(s[k], r.bins[j], r.bins[j + 1])}) <= 1
       /\ \A j \in 1..n :
              r.freq_counts[j] = Cardinality({k \in DOMAIN s :
                                     within(s[k], r.bins[j], r.bins[j + 1])})
       /\ SumSeq(r.freq_counts) = Cardinality({k \in DOMAIN s :
                                     within(s[k], r.bins[1], r.bins[n + 1])})

\* C5: the histogram of every non-empty sequence with max > min and
\* n_bins >= 1 has the shape above.
C5_HistogramShape ==
    (Returned("histogram") /\ call.salaries # <<>> /\ call.n_bins >= 1
        /\ PyMax(call.salaries) > PyMin(call.salaries))
    => HistogramShape(call.salaries, call.n_bins, result)

\* C6: histogram drops no value: for non-negative values with max > min and
\* n_bins >= 1, sum(frequencies) = len(values) and sum(probabilities) = 1.
C6_NoValueDropped ==
    (Returned("histogram") /\ call.salaries # <<>> /\ call.n_bins >= 1
        /\ NonNegative(call.salaries) /\ PyMax(call.salaries) > PyMin(call.salaries))
    => /\ SumSeq(result.freq_counts) = Len(call.salaries)
       /\ SumSeq(result.prob_counts) = result.total

\* C7: histogram on a non-empty sequence of equal values (max_v = min_v, so
\* the bins have no width) fails with an error; it never returns edges,
\* frequencies and probabilities.
C7_DegenerateRangeFails ==
    (pc = "done" /\ call.op = "histogram" /\ call.salaries # <<>>
        /\ PyMax(call.salaries) = PyMin(call.salaries)
        /\ PyMax(call.salaries) = ClampedMin(call.salaries))
    => result.raises # ""

\* C8: calculate_quantile fails with an error when q is outside [0, 1] or the
\* sequence is empty; it never returns a number then (stated here for
\* non-negative salaries).
C8_InvalidQuantileFails ==
    (pc = "done" /\ call.op = "calculate_quantile" /\ NonNegative(call.salaries)
        /\ (call.q4 < 0 \/ call.q4 > 4 \/ call.salaries = <<>>))
    => result.raises # ""

\* What C9 says get_vacancies_from_hh returns for the answers it got: the
\* items of the pages fetched, in page and item order, whose normalized salary
\* is present and at least 5000.
RECURSIVE Qualifying(_)
Qualifying(items) ==
    IF items = <<>> THEN <<>>
    ELSE LET normalized == parse_salary(items[1].salary)
         IN (IF normalized # None /\ normalized[1] >= 5000 * Den
             THEN <<[title |-> items[1].name, salary |-> normalized[1]]>>
             ELSE <<>>) \o Qualifying(Tail(items))
RECURSIVE Expected(_)
Expected(rs) ==
    IF rs = <<>> THEN <<>>
    ELSE Expected(SubSeq(rs, 1, Len(rs) - 1)) \o Qualifying(rs[Len(rs)].items)

EmptyPage(r) == r.kind = "ok" /\ r.items = <<>>

\* C9: while get_vacancies_from_hh runs and when it returns, pages are
\* requested in increasing order from 0, nothing is requested after the first
\* fetched page without items, the list collected is the qualifying items of
\* the fetched pages in order (a failed request adds and removes nothing), and
\* the loop ends only after an empty page or the last page, so a failed
\* request does not stop the later ones.
C9_VacanciesCollected ==
    /\ \A i \in DOMAIN responses : responses[i].page = i - 1
    /\ \A i \in DOMAIN responses : EmptyPage(responses[i]) => i = Len(responses)
    /\ pc \in {"fetch", "returned"} => vacancies = Expected(responses)
    /\ Len(responses) <= max_pages
    /\ pc = "fetch" => (Len(responses) = page /\ page < max_pages)
    /\ pc = "returned"
       => (responses # <<>> /\ (Len(responses) = max_pages
                                  \/ EmptyPage(responses[Len(responses)])))

\* A run in which the first request failed, later pages were fetched, items
\* were both kept and dropped, and the list was returned.
C9_Witness ==
    /\ pc = "returned" /\ Len(responses) = max_pages
    /\ responses[1].kind = "failed"
    /\ responses[2].kind = "ok" /\ Len(responses[2].items) = MaxItems
    /\ Len(vacancies) >= 2
    /\ vacancies[1].salary # vacancies[2].salary
    /\ Len(vacancies) < Len(responses[2].items) + Len(responses[3].items)

\* C10: for every non-empty list of vacancies draw_plots calls histogram with
\* n_bins >= 1, and the run that printed the statistics reaches save_results
\* and is not ended by an exception.
C10_PlotBinsMeetPrecondition ==
    /\ pc = "printed" => plot_bins(salaries_of(vacancies)) >= 1
    /\ pc # "went_wrong"
====
